---- MODULE Spec2Model ----
(***************************************************************************)
(* A model of the gatherer assembler: src/src/main.rs (parse_file,         *)
(* assign_labels, write_coe) and src/src/instruction.rs (the Instruction   *)
(* enum, its parser and its encoder).                                      *)
(*                                                                         *)
(* Text is modelled at character level: a &str is a sequence of            *)
(* one-character strings, so that trimming, splitting, prefix detection    *)
(* and digit accumulation are computed as the code computes them.          *)
(* Option<T> is a sequence: <<>> is None and <<v>> is Some(v).             *)
(***************************************************************************)
EXTENDS Integers, Sequences, FiniteSets, TLC

VARIABLES
    pc,      \* position of main: "parse", "assign", "write", "done", "failed", "panicked"
    lines,   \* the raw lines reader.lines() has yielded so far (main.rs:92)
    instrs,  \* ParsedAsm.instrs (main.rs:45)
    labels,  \* ParsedAsm.labels (main.rs:46)
    off,     \* the off argument of assign_labels (main.rs:50)
    idx,     \* the enumerate() index of the running loop (main.rs:51, main.rs:75)
    file,    \* the output file: <<>> while it does not exist, else <<its lines>>
    err,     \* the AssemblerError a failed call returned
    given,   \* unit level: the operands a line was written from
    text,    \* unit level: the line handed to Instruction::from_str
    parsed,  \* unit level: what from_str returned, and the instructions since
    word     \* unit level: what the last encode() returned

vars == <<pc, lines, instrs, labels, off, idx, file, err, given, text, parsed, word>>

(***************************************************************************)
(* Machine integers.                                                       *)
(***************************************************************************)
RECURSIVE Pow2(_)
Pow2(n) == IF n = 0 THEN 1 ELSE 2 * Pow2(n - 1)

\* `x as uN`: truncation to the low `bits` bits.
AsUnsigned(x, bits) == x % Pow2(bits)

\* `x as iN`: truncation to the low `bits` bits, read as two's complement.
AsSigned(x, bits) ==
    LET m == x % Pow2(bits)
    IN  IF m >= Pow2(bits - 1) THEN m - Pow2(bits) ELSE m

\* `x << n` on a u32: the bits shifted past bit 31 are dropped, (x * 2^n) mod 2^32
Shl32(x, n) == (x % Pow2(32 - n)) * Pow2(n)

\* `a | b` on unsigned values.
RECURSIVE BitOr(_, _)
BitOr(a, b) ==
    IF a = 0 THEN b
    ELSE IF b = 0 THEN a
    ELSE (IF (a % 2) + (b % 2) > 0 THEN 1 ELSE 0) + 2 * BitOr(a \div 2, b \div 2)

\* bits hi..lo of a word
Bits(w, hi, lo) == (w \div Pow2(lo)) % Pow2(hi - lo + 1)

(***************************************************************************)
(* &str operations.                                                        *)
(***************************************************************************)
WhiteSpace == {" ", "\t"}
Lower == {"a","b","c","d","e","f","g","h","i","j","k","l","m",
          "n","o","p","q","r","s","t","u","v","w","x","y","z"}
Upper == {"A","B","C","D","E","F","G","H","I","J","K","L","M",
          "N","O","P","Q","R","S","T","U","V","W","X","Y","Z"}
Digit == {"0","1","2","3","4","5","6","7","8","9"}

\* s[from..] with a 1-based `from`
Suffix(s, from) == SubSeq(s, from, Len(s))

\* str::find(char): the 1-based index of the first c, 0 for None
Find(s, c) ==
    IF \E i \in 1..Len(s) : s[i] = c
    THEN CHOOSE i \in 1..Len(s) : s[i] = c /\ \A j \in 1..(i - 1) : s[j] # c
    ELSE 0

StartsWith(s, p) == Len(s) >= Len(p) /\ SubSeq(s, 1, Len(p)) = p

\* str::find(&str): the 1-based index of the first occurrence of p, 0 for None
FindStr(s, p) ==
    IF \E i \in 1..Len(s) : StartsWith(Suffix(s, i), p)
    THEN CHOOSE i \in 1..Len(s) :
            /\ StartsWith(Suffix(s, i), p)
            /\ \A j \in 1..(i - 1) : ~StartsWith(Suffix(s, j), p)
    ELSE 0

\* str::trim
Trim(s) ==
    IF \A i \in 1..Len(s) : s[i] \in WhiteSpace THEN <<>>
    ELSE LET a == CHOOSE i \in 1..Len(s) :
                    s[i] \notin WhiteSpace /\ \A j \in 1..(i - 1) : s[j] \in WhiteSpace
             b == CHOOSE i \in 1..Len(s) :
                    s[i] \notin WhiteSpace /\ \A j \in (i + 1)..Len(s) : s[j] \in WhiteSpace
         IN  SubSeq(s, a, b)

\* str::split(',') collected: always at least one piece
RECURSIVE Split(_)
Split(s) ==
    LET c == Find(s, ",")
    IN  IF c = 0 THEN <<s>>
        ELSE <<SubSeq(s, 1, c - 1)>> \o Split(Suffix(s, c + 1))

\* rest.split(',').map(|x| x.trim()).collect()
SplitTrim(s) == LET p == Split(s) IN [i \in 1..Len(p) |-> Trim(p[i])]

(***************************************************************************)
(* Results and errors (src/src/error.rs).                                  *)
(***************************************************************************)
NoText == <<>>

Error(kind, txt, expected, found) ==
    [kind |-> kind, text |-> txt, expected |-> expected, found |-> found]

OpcodeMissing(s)      == Error("OpcodeMissing", s, 0, 0)
UnknownInstruction(s) == Error("UnknownInstruction", s, 0, 0)
InvalidNoOfArgs(e, f) == Error("InvalidNoOfArgs", NoText, e, f)
UnknownRegister(s)    == Error("UnknownRegister", s, 0, 0)
InvalidNumber(s)      == Error("InvalidNumber", s, 0, 0)
InvalidInstruction(s) == Error("InvalidInstruction", s, 0, 0)
FloatingLabel(s)      == Error("FloatingLabel", s, 0, 0)
NoError               == Error("None", NoText, 0, 0)

\* Result<T, AssemblerError>; a panic is the third outcome a call can have
Ok(v)   == [tag |-> "Ok", val |-> <<v>>, err |-> NoError]
Err(e)  == [tag |-> "Err", val |-> <<>>, err |-> e]
Panic   == [tag |-> "Panic", val |-> <<>>, err |-> NoError]
IsOk(r) == r.tag = "Ok"
Unwrap(r) == r.val[1]

(***************************************************************************)
(* The register table (instruction.rs:449-485).                            *)
(***************************************************************************)
\* RegisterNames[i + 1] is the name of register i
RegisterNames == <<
    <<"$","z","e","r","o">>, <<"$","a","t">>, <<"$","v","0">>, <<"$","v","1">>,
    <<"$","a","0">>, <<"$","a","1">>, <<"$","a","2">>, <<"$","a","3">>,
    <<"$","t","0">>, <<"$","t","1">>, <<"$","t","2">>, <<"$","t","3">>,
    <<"$","t","4">>, <<"$","t","5">>, <<"$","t","6">>, <<"$","t","7">>,
    <<"$","s","0">>, <<"$","s","1">>, <<"$","s","2">>, <<"$","s","3">>,
    <<"$","s","4">>, <<"$","s","5">>, <<"$","s","6">>, <<"$","s","7">>,
    <<"$","t","8">>, <<"$","t","9">>, <<"$","k","0">>, <<"$","k","1">>,
    <<"$","g","p">>, <<"$","s","p">>, <<"$","f","p">>, <<"$","r","a">> >>

\* register_from_str: Some(index) or None
register_from_str(reg) ==
    IF \E i \in 1..Len(RegisterNames) : RegisterNames[i] = reg
    THEN <<(CHOOSE i \in 1..Len(RegisterNames) : RegisterNames[i] = reg) - 1>>
    ELSE <<>>

(***************************************************************************)
(* Number literals (instruction.rs:375-417).                               *)
(***************************************************************************)
DigitChars == <<"0","1","2","3","4","5","6","7","8","9","a","b","c","d","e","f">>
UpperDigitChars == <<"0","1","2","3","4","5","6","7","8","9","A","B","C","D","E","F">>

\* char::to_digit(radix): Some(value) or None
to_digit(c, radix) ==
    LET v == IF \E i \in 1..16 : DigitChars[i] = c
             THEN (CHOOSE i \in 1..16 : DigitChars[i] = c) - 1
             ELSE IF \E i \in 1..16 : UpperDigitChars[i] = c
             THEN (CHOOSE i \in 1..16 : UpperDigitChars[i] = c) - 1
             ELSE 36
    IN  IF v < radix THEN <<v>> ELSE <<>>

\* the digit loop of uN::from_str_radix: Some(value), None on a bad digit or overflow
RECURSIVE accumulate_digits(_, _, _, _)
accumulate_digits(digits, radix, bits, acc) ==
    IF digits = <<>> THEN <<acc>>
    ELSE LET d == to_digit(digits[1], radix)
         IN  IF d = <<>> THEN <<>>
             ELSE IF acc * radix + d[1] >= Pow2(bits) THEN <<>>
             ELSE accumulate_digits(Suffix(digits, 2), radix, bits, acc * radix + d[1])

\* uN::from_str_radix(src, radix) for an unsigned type of `bits` bits
from_str_radix(src, radix, bits) ==
    IF src = <<>> THEN <<>>
    ELSE IF src[1] \in {"+", "-"} /\ Len(src) = 1 THEN <<>>
    ELSE IF src[1] = "+" THEN accumulate_digits(Suffix(src, 2), radix, bits, 0)
    ELSE accumulate_digits(src, radix, bits, 0)

\* parse_radix: <<radix, the digits after the prefix>>
parse_radix(num) ==
    IF Len(num) < 2 THEN <<10, num>>
    ELSE LET p == SubSeq(num, 1, 2)
         IN  IF p = <<"0","x">> THEN <<16, Suffix(num, 3)>>
             ELSE IF p = <<"0","b">> THEN <<2, Suffix(num, 3)>>
             ELSE IF p = <<"0","o">> THEN <<8, Suffix(num, 3)>>
             ELSE <<10, num>>

\* parse_sign: <<sign, the text after it>>; num_bytes[0] panics on an empty text
parse_sign(num) ==
    IF num = <<>> THEN Panic
    ELSE IF num[1] = "+" THEN Ok(<<"Positive", Suffix(num, 2)>>)
    ELSE IF num[1] = "-" THEN Ok(<<"Negative", Suffix(num, 2)>>)
    ELSE Ok(<<"Positive", num>>)

\* to_sign that drops the sign
to_sign_dropped(sign, val, bits) == AsUnsigned(val, bits)

\* Sign::to_sign on a value of an unsigned type of `bits` bits
\* (val.as_() zero-extends a u8 or u16 into the i32, whose negation cannot overflow)
to_sign(sign, val, bits) ==
    LET signed_val == val
        after_sign == IF sign = "Positive" THEN signed_val ELSE 0 - signed_val
    IN  AsUnsigned(after_sign, bits)

(***************************************************************************)
(* Instructions (instruction.rs:7-31, 495-523).                            *)
(***************************************************************************)
\* a label created with the address 0 instead of none
LabelFromZero(s) == [name |-> s, addr |-> <<0>>]

\* AbsLabel::from / RelLabel::from: a label without an address
LabelFrom(s) == [name |-> s, addr |-> <<>>]
NoLabel == [name |-> <<>>, addr |-> <<>>]

\* a value of the Instruction enum; the fields a variant lacks are 0 / NoLabel
Instruction(op, rs, rt, imm, sh, label) ==
    [op |-> op, rs |-> rs, rt |-> rt, imm |-> imm, sh |-> sh, label |-> label]

TwoRegOps == {"Add", "Comp", "And", "Xor", "Sllv", "Srlv", "Srav"}
ImmOps    == {"AddImm", "CompImm"}
ShiftOps  == {"Sll", "Srl", "Sra"}
MemOps    == {"Lw", "Sw"}
RegLabelOps == {"Bltz", "Bz", "Bnz"}

\* the variants and their mnemonics, as opname() and try_from's match list them
OpNames == <<
    <<"Add", <<"a","d","d">>>>,
    <<"Comp", <<"c","o","m","p">>>>,
    <<"AddImm", <<"a","d","d","i">>>>,
    <<"CompImm", <<"c","o","m","p","i">>>>,
    <<"And", <<"a","n","d">>>>,
    <<"Xor", <<"x","o","r">>>>,
    <<"Sll", <<"s","l","l">>>>,
    <<"Srl", <<"s","r","l">>>>,
    <<"Sra", <<"s","r","a">>>>,
    <<"Sllv", <<"s","l","l","v">>>>,
    <<"Srlv", <<"s","r","l","v">>>>,
    <<"Srav", <<"s","r","a","v">>>>,
    <<"Lw", <<"l","w">>>>,
    <<"Sw", <<"s","w">>>>,
    <<"B", <<"b">>>>,
    <<"Bl", <<"b","l">>>>,
    <<"Br", <<"b","r">>>>,
    <<"Bcy", <<"b","c","y">>>>,
    <<"Bncy", <<"b","n","c","y">>>>,
    <<"Bltz", <<"b","l","t","z">>>>,
    <<"Bz", <<"b","z">>>>,
    <<"Bnz", <<"b","n","z">>>> >>

opname(op) == OpNames[CHOOSE i \in 1..Len(OpNames) : OpNames[i][1] = op][2]

\* Instruction::opcode
opcode(op) ==
    CASE op = "Add" -> 0    [] op = "Comp" -> 1   [] op = "AddImm" -> 2
      [] op = "CompImm" -> 3 [] op = "And" -> 4    [] op = "Xor" -> 5
      [] op = "Sll" -> 6     [] op = "Srl" -> 7    [] op = "Sra" -> 10
      [] op = "Sllv" -> 8    [] op = "Srlv" -> 9   [] op = "Srav" -> 11
      [] op = "Lw" -> 12     [] op = "Sw" -> 13    [] op = "B" -> 14
      [] op = "Bl" -> 19     [] op = "Br" -> 15    [] op = "Bcy" -> 20
      [] op = "Bncy" -> 21   [] op = "Bltz" -> 16  [] op = "Bz" -> 17
      [] op = "Bnz" -> 18

has_abs_label(i) == i.op \in {"B", "Bl"}
has_rel_label(i) == i.op \in {"Bcy", "Bncy", "Bltz", "Bz", "Bnz"}

\* set_abs_addr that writes the low half of the address into imm as well
set_abs_addr_and_imm(i, addr) ==
    IF i.op \in {"B", "Bl"}
    THEN [i EXCEPT !.label.addr = <<addr>>, !.imm = addr % 65536] ELSE i

\* set_abs_addr: only B and Bl take the address, the others print a warning
set_abs_addr(i, addr) ==
    IF i.op \in {"B", "Bl"} THEN [i EXCEPT !.label.addr = <<addr>>] ELSE i

\* set_rel_addr: only the relative branches take the address
set_rel_addr(i, addr) ==
    IF i.op \in {"Bcy", "Bncy", "Bltz", "Bz", "Bnz"}
    THEN [i EXCEPT !.label.addr = <<addr>>] ELSE i

get_label_name(i) == i.label.name

(***************************************************************************)
(* Operand parsers (instruction.rs:342-447, 487-493).                      *)
(***************************************************************************)
\* extract_command: Some(<<mnemonic, rest>>) split at the first blank, or None
extract_command(instr) ==
    LET blank_idx == Find(instr, " ")
    IN  IF blank_idx = 0 THEN <<>>
        ELSE << <<SubSeq(instr, 1, blank_idx - 1), Suffix(instr, blank_idx + 1)>> >>

\* parse_two_registers: Ok(<<rs, rt>>)
parse_two_registers(rest) ==
    LET regs_str == SplitTrim(rest)
    IN  IF Len(regs_str) # 2 THEN Err(InvalidNoOfArgs(2, Len(regs_str)))
        ELSE LET r1 == register_from_str(regs_str[1])
                 r2 == register_from_str(regs_str[2])
             IN  IF r1 = <<>> THEN Err(UnknownRegister(regs_str[1]))
                 ELSE IF r2 = <<>> THEN Err(UnknownRegister(regs_str[2]))
                 ELSE Ok(<<r1[1], r2[1]>>)

\* parse_register_and_value::<T> for an unsigned T of `bits` bits: Ok(<<reg, value>>)
parse_register_and_value(rest, bits) ==
    LET things_str == SplitTrim(rest)
    IN  IF Len(things_str) # 2 THEN Err(InvalidNoOfArgs(2, Len(things_str)))
        ELSE LET reg == register_from_str(things_str[1])
             IN  IF reg = <<>> THEN Err(UnknownRegister(things_str[1]))
                 ELSE LET s == parse_sign(things_str[2])
                      IN  IF ~IsOk(s) THEN Panic
                          ELSE LET r   == parse_radix(Unwrap(s)[2])
                                   val == from_str_radix(r[2], r[1], bits)
                               IN  IF val = <<>> THEN Err(InvalidNumber(r[2]))
                                   ELSE Ok(<<reg[1], to_sign(Unwrap(s)[1], val[1], bits)>>)

\* the first index >= q of s that holds no blank (Len(s) + 1 when there is none)
SkipBlanks(s, q) ==
    CHOOSE e \in q..(Len(s) + 1) :
        /\ \A j \in q..(e - 1) : s[j] = " "
        /\ (e <= Len(s) => s[e] # " ")

\* the first index >= q of s that holds "(" (Len(s) + 1 when there is none)
SkipToParen(s, q) ==
    CHOOSE e \in q..(Len(s) + 1) :
        /\ \A j \in q..(e - 1) : s[j] # "("
        /\ (e <= Len(s) => s[e] = "(")

\* \$[a-z0-9]{2} at index q of s
IsRegisterShape(s, q) ==
    /\ q + 2 <= Len(s)
    /\ s[q] = "$"
    /\ s[q + 1] \in Lower \cup Digit
    /\ s[q + 2] \in Lower \cup Digit

\* The match of RE = (\$[a-z0-9]{2}) *, *([^(]+)\((\$[a-z0-9]{2})\) that starts at
\* index p of s: <<the three captures>>, or <<>> when there is none.  Both ` *` and
\* `[^(]+` are greedy; the one backtrack that changes the outcome hands the last
\* blank after the comma to the second group when "(" follows the blanks at once.
MemMatchAt(s, p) ==
    IF ~IsRegisterShape(s, p) THEN <<>>
    ELSE LET comma == SkipBlanks(s, p + 3)
         IN  IF comma > Len(s) \/ s[comma] # "," THEN <<>>
             ELSE LET greedy == SkipBlanks(s, comma + 1)
                      paren  == SkipToParen(s, greedy)
                      start  == IF paren = greedy /\ greedy > comma + 1
                                THEN greedy - 1 ELSE greedy
                  IN  IF paren > Len(s) \/ paren = start THEN <<>>
                      ELSE IF ~IsRegisterShape(s, paren + 1) THEN <<>>
                      ELSE IF paren + 4 > Len(s) \/ s[paren + 4] # ")" THEN <<>>
                      ELSE << <<SubSeq(s, p, p + 2),
                                SubSeq(s, start, paren - 1),
                                SubSeq(s, paren + 1, paren + 3)>> >>

\* the match that starts at the least of the indices `starts`
LeftmostMatch(s, starts) ==
    IF starts = {} THEN <<>>
    ELSE MemMatchAt(s, CHOOSE p \in starts : \A q \in starts : p <= q)

\* RE.captures(rest): the leftmost match
MemCaptures(s) == LeftmostMatch(s, {p \in 1..Len(s) : MemMatchAt(s, p) # <<>>})

\* parse_mem_access after RE.captures(rest): Ok(<<rt, imm, rs>>)
MemAccessOf(rest, caps) ==
        IF caps = <<>> THEN Err(InvalidInstruction(rest))
        ELSE LET rt == register_from_str(caps[1][1])
             IN  IF rt = <<>> THEN Err(UnknownRegister(caps[1][1]))
                 ELSE LET s   == parse_sign(caps[1][2])
                          r   == parse_radix(Unwrap(s)[2])
                          imm == from_str_radix(r[2], r[1], 16)
                          rs  == register_from_str(caps[1][3])
                      IN  IF imm = <<>> THEN Err(InvalidNumber(r[2]))
                          ELSE IF rs = <<>> THEN Err(UnknownRegister(caps[1][3]))
                          ELSE Ok(<<rt[1], to_sign(Unwrap(s)[1], imm[1], 16), rs[1]>>)

\* parse_mem_access: Ok(<<rt, imm, rs>>)
parse_mem_access(rest) == MemAccessOf(rest, MemCaptures(rest))

\* parse_reg_label: Ok(<<reg, label>>)
parse_reg_label(rest) ==
    LET things_str == SplitTrim(rest)
    IN  IF Len(things_str) # 2 THEN Err(InvalidNoOfArgs(2, Len(things_str)))
        ELSE LET reg == register_from_str(things_str[1])
             IN  IF reg = <<>> THEN Err(UnknownRegister(things_str[1]))
                 ELSE Ok(<<reg[1], LabelFrom(things_str[2])>>)

(***************************************************************************)
(* Instruction::try_from and Instruction::from_str (instruction.rs:189-340) *)
(***************************************************************************)
\* a register operand taken as it stands: Ok(index) or Err(UnknownRegister)
OneRegister(rest, reg) ==
    IF reg = <<>> THEN Err(UnknownRegister(rest)) ELSE Ok(reg[1])

\* the variant of try_from's arm for op, built from the parsed operands v
Variant(op, v) ==
    CASE op \in TwoRegOps -> Instruction(op, v[1], v[2], 0, 0, NoLabel)
      [] op \in ImmOps -> Instruction(op, v[1], 0, v[2], 0, NoLabel)
      [] op \in ShiftOps -> Instruction(op, v[1], 0, 0, v[2], NoLabel)
      [] op \in MemOps -> Instruction(op, v[3], v[1], v[2], 0, NoLabel)
      [] op = "Br" -> Instruction(op, v, 0, 0, 0, NoLabel)
      [] op \in RegLabelOps -> Instruction(op, v[1], 0, 0, 0, v[2])

\* `?` on the parsed operands, then Ok(variant): an error or a panic passes through
VariantOf(op, r) == IF IsOk(r) THEN Ok(Variant(op, Unwrap(r))) ELSE r

\* <Instruction as TryFrom<&str>>::try_from: Ok(instruction)
try_from(instr) ==
    LET ec == extract_command(instr)
    IN  IF ec = <<>> THEN Err(OpcodeMissing(instr))
        ELSE LET comm == ec[1][1]
                 rest == ec[1][2]
             IN  IF ~\E i \in 1..Len(OpNames) : OpNames[i][2] = comm
                 THEN Err(UnknownInstruction(comm))
                 ELSE LET op == OpNames[CHOOSE i \in 1..Len(OpNames) : OpNames[i][2] = comm][1]
                      IN  CASE op \in TwoRegOps -> VariantOf(op, parse_two_registers(rest))
                            [] op \in ImmOps -> VariantOf(op, parse_register_and_value(rest, 16))
                            [] op \in ShiftOps -> VariantOf(op, parse_register_and_value(rest, 8))
                            [] op \in MemOps -> VariantOf(op, parse_mem_access(rest))
                            [] op \in {"B", "Bl", "Bcy", "Bncy"} ->
                                  Ok(Instruction(op, 0, 0, 0, 0, LabelFrom(Trim(rest))))
                            [] op = "Br" ->
                                  VariantOf(op, OneRegister(rest, register_from_str(rest)))
                            [] op \in RegLabelOps -> VariantOf(op, parse_reg_label(rest))

\* the frame pointer taken for the stack pointer
StackPointerFp == register_from_str(<<"$","f","p">>)[1]

\* register_from_str("$sp").unwrap()
StackPointer == register_from_str(<<"$","s","p">>)[1]

Push == <<"p","u","s","h">>
Pop  == <<"p","o","p">>
Mov  == <<"m","o","v">>

\* the instructions from_str returns for comm, from the parsed operands v
Expansion(comm, v) ==
    CASE comm = Push -> <<Instruction("Sw", StackPointer, v, 0, 0, NoLabel),
                          Instruction("AddImm", StackPointer, 0, AsUnsigned(0 - 4, 16), 0, NoLabel)>>
      [] comm = Pop  -> <<Instruction("AddImm", StackPointer, 0, 4, 0, NoLabel),
                          Instruction("Lw", StackPointer, v, 0, 0, NoLabel)>>
      [] comm = Mov  -> <<Instruction("Xor", v[1], v[1], 0, 0, NoLabel),
                          Instruction("Add", v[1], v[2], 0, 0, NoLabel)>>
      [] OTHER -> <<v>>

\* `?` on the parsed operands, then Ok(vec![..]): an error or a panic passes through
ExpansionOf(comm, r) == IF IsOk(r) THEN Ok(Expansion(comm, Unwrap(r))) ELSE r

\* Instruction::from_str: Ok(<<the primitive instructions of the line>>)
from_str(instr) ==
    LET ec == extract_command(instr)
    IN  IF ec = <<>> THEN Err(OpcodeMissing(instr))
        ELSE LET comm == ec[1][1]
                 rest == ec[1][2]
             IN  CASE comm \in {Push, Pop} ->
                        ExpansionOf(comm, OneRegister(rest, register_from_str(rest)))
                   [] comm = Mov -> ExpansionOf(comm, parse_two_registers(rest))
                   [] OTHER -> ExpansionOf(comm, try_from(instr))

(***************************************************************************)
(* Encoding (instruction.rs:88-128, 230-244).                              *)
(***************************************************************************)
\* encode_itype with rs and rt in each other's place
encode_itype_exchanged(opc, rs, rt, imm) ==
    BitOr(BitOr(BitOr(Shl32(opc, 26), Shl32(rt, 21)), Shl32(rs, 16)), imm)

\* encode_itype: the four fields or-ed into a u32
encode_itype(opc, rs, rt, imm) ==
    BitOr(BitOr(BitOr(Shl32(opc, 26), Shl32(rs, 21)), Shl32(rt, 16)), imm)

\* encode_jtype: the opcode and the whole u32 address or-ed together
encode_jtype(opc, addr) == BitOr(Shl32(opc, 26), addr)

\* Instruction::encode: Ok(word) or Err(FloatingLabel)
encode(i) ==
    LET opc == opcode(i.op)
    IN  CASE i.op \in TwoRegOps -> Ok(encode_itype(opc, i.rs, i.rt, 0))
          [] i.op \in ImmOps -> Ok(encode_itype(opc, i.rs, 0, i.imm))
          [] i.op \in ShiftOps -> Ok(encode_itype(opc, i.rs, i.sh, 0))
          [] i.op \in MemOps -> Ok(encode_itype(opc, i.rs, i.rt, i.imm))
          [] i.op \in {"B", "Bl"} ->
                IF i.label.addr # <<>> THEN Ok(encode_jtype(opc, i.label.addr[1]))
                ELSE Err(FloatingLabel(i.label.name))
          [] i.op \in {"Bcy", "Bncy"} ->
                IF i.label.addr # <<>> THEN Ok(encode_itype(opc, 0, 0, i.label.addr[1]))
                ELSE Err(FloatingLabel(i.label.name))
          [] i.op = "Br" -> Ok(encode_itype(opc, i.rs, 0, 0))
          [] i.op \in RegLabelOps ->
                IF i.label.addr # <<>> THEN Ok(encode_itype(opc, i.rs, 0, i.label.addr[1]))
                ELSE Err(FloatingLabel(i.label.name))

(***************************************************************************)
(* parse_file (main.rs:87-118).  Opening and reading the file cannot fail  *)
(* here: the lines are the input, drawn from ProgramLines.                  *)
(***************************************************************************)
IdentChars == Lower \cup Upper \cup Digit \cup {"_"}

\* the first index >= q of s that holds no identifier character
SkipIdent(s, q) ==
    CHOOSE e \in q..(Len(s) + 1) :
        /\ \A j \in q..(e - 1) : s[j] \in IdentChars
        /\ (e <= Len(s) => s[e] \notin IdentChars)

\* LABEL_RE = ([a-zA-Z0-9_]+): matches at index p of s
LabelMatchAt(s, p) ==
    /\ s[p] \in IdentChars
    /\ SkipIdent(s, p) <= Len(s)
    /\ s[SkipIdent(s, p)] = ":"

\* detect_label: Some(the capture of the leftmost match) or None
detect_label(line) ==
    IF \E p \in 1..Len(line) : LabelMatchAt(line, p)
    THEN LET p == CHOOSE q \in 1..Len(line) :
                    LabelMatchAt(line, q) /\ \A r \in 1..(q - 1) : ~LabelMatchAt(line, r)
         IN  <<SubSeq(line, p, SkipIdent(line, p) - 1)>>
    ELSE <<>>

Slashes == <<"/","/">>

\* main.rs:94-102: the line as detect_label and from_str see it
StripComment(raw) ==
    LET line      == Trim(raw)
        slash_idx == FindStr(line, Slashes)
    IN  IF slash_idx = 0 THEN line ELSE SubSeq(line, 1, slash_idx - 1)

\* an insert that keeps the value of a key the map already holds
InsertIfAbsent(map, key, value) ==
    [k \in DOMAIN map \cup {key} |-> IF k \in DOMAIN map THEN map[k] ELSE value]

\* HashMap::insert
Insert(map, key, value) ==
    [k \in DOMAIN map \cup {key} |-> IF k = key THEN value ELSE map[k]]

EmptyMap == [k \in {} |-> 0]

(***************************************************************************)
(* assign_labels (main.rs:50-69).  All the u32 and i32 values of the model *)
(* stay far below 2^31, so none of these operations wraps.                 *)
(***************************************************************************)
\* abs_addr without the scaling of the position to bytes
abs_addr_unscaled(offset, label_idx) == offset + label_idx

\* main.rs:56: the address of an absolute label
abs_addr(offset, label_idx) == offset + 4 * label_idx

\* main.rs:59-64: the immediate of a relative label
rel_imm(index, label_idx) ==
    LET next_pc    == 4 * (index + 1)
        label_addr == 4 * label_idx
        diff       == label_addr - next_pc
    IN  AsUnsigned(AsSigned(diff, 16) \div 4, 16)

\* one iteration of the loop: Ok(the instruction afterwards); self.labels[name]
\* panics when the name is no key of the map
assign_label(instr, index, map, offset) ==
    IF has_abs_label(instr)
    THEN IF get_label_name(instr) \notin DOMAIN map THEN Panic
         ELSE Ok(set_abs_addr(instr, abs_addr(offset, map[get_label_name(instr)])))
    ELSE IF has_rel_label(instr)
    THEN IF get_label_name(instr) \notin DOMAIN map THEN Panic
         ELSE Ok(set_rel_addr(instr, rel_imm(index, map[get_label_name(instr)])))
    ELSE Ok(instr)

(***************************************************************************)
(* write_coe (main.rs:71-84).                                              *)
(***************************************************************************)
RECURSIVE ToBinary(_, _)
\* format!("{:0width$b}", n)
ToBinary(n, width) ==
    IF width = 0 THEN <<>>
    ELSE ToBinary(n \div 2, width - 1) \o <<IF n % 2 = 1 THEN "1" ELSE "0">>

NoFile == [exists |-> FALSE, content |-> <<>>]

RadixHeader == <<"m","e","m","o","r","y","_","i","n","i","t","i","a","l","i","z","a","t","i","o","n","_","r","a","d","i","x","=","2",";">>
VectorHeader == <<"m","e","m","o","r","y","_","i","n","i","t","i","a","l","i","z","a","t","i","o","n","_","v","e","c","t","o","r","=">>

\* main.rs:76-81: the line written for the word of instruction `index`
WordLine(w, index, count) ==
    ToBinary(w, 32) \o (IF index = count - 1 THEN <<";">> ELSE <<",">>)

(***************************************************************************)
(* The run of main (main.rs:20-42): parse_file, assign_labels, write_coe.  *)
(***************************************************************************)
\* the longest source file of the model, in lines
MaxLines == 3

\* the lines a source file is made of: label lines, absolute and relative
\* branches, an instruction with an end-of-line comment, a pseudo-instruction,
\* a branch to a label no line defines, a comment line, an unknown mnemonic
ProgramLines == {
    <<"A",":">>,
    <<"B",":">>,
    <<"b"," ","A">>,
    <<"b","l"," ","B">>,
    <<"b","z"," ","$","t","0",","," ","B">>,
    <<"b","c","y"," ","A">>,
    <<"x","o","r"," ","$","t","0",","," ","$","t","1"," ","/","/"," ","x">>,
    <<"p","o","p"," ","$","t","0">>,
    <<"b"," ","C">>,
    <<"/","/"," ","n","o","t","e">>,
    <<"n","o","p">> }

\* 2^26: the least address that does not fit the 26-bit field of b and bl
FieldLimit == Pow2(26)

\* the base offsets assign_labels is called with (main passes 0)
Offsets == {0, 64, FieldLimit}

NotCalled == [tag |-> "NotCalled", val |-> <<>>, err |-> NoError]
NoSource ==
    [form |-> "none", mnem |-> <<>>, r1 |-> 0, r2 |-> 0, sign |-> <<>>,
     radix |-> 10, n |-> 0, label |-> <<>>, raw |-> <<>>]

UnitIdle ==
    /\ given = NoSource
    /\ text = <<>>
    /\ parsed = NotCalled
    /\ word = NotCalled

Init ==
    /\ pc = "parse"
    /\ lines = <<>>
    /\ instrs = <<>>
    /\ labels = EmptyMap
    /\ off = 0
    /\ idx = 0
    /\ file = NoFile
    /\ err = NoError
    /\ UnitIdle

unit == <<given, text, parsed, word>>

\* one turn of the loop of parse_file (main.rs:92-109) on the next line of the file
ReadLine(raw) ==
    /\ pc = "parse"
    /\ Len(lines) < MaxLines
    /\ lines' = Append(lines, raw)
    /\ IF StartsWith(Trim(raw), Slashes)
       THEN UNCHANGED <<pc, instrs, labels, err>>
       ELSE \E line \in {StripComment(raw)} : \E label \in {detect_label(line)} :
            IF label # <<>>
            THEN /\ labels' = Insert(labels, label[1], Len(instrs))
                 /\ UNCHANGED <<pc, instrs, err>>
            ELSE \E r \in {from_str(line)} :
                 /\ instrs' = IF IsOk(r) THEN instrs \o Unwrap(r) ELSE instrs
                 /\ pc' = IF IsOk(r) THEN pc
                          ELSE IF r.tag = "Err" THEN "failed" ELSE "panicked"
                 /\ err' = r.err
                 /\ UNCHANGED labels
    /\ UNCHANGED <<off, idx, file, unit>>

\* the file ends: parse_file returns Ok and main calls assign_labels (main.rs:110, 36)
CallAssignLabels(offset) ==
    /\ pc = "parse"
    /\ pc' = "assign"
    /\ off' = offset
    /\ idx' = 0
    /\ UNCHANGED <<lines, instrs, labels, file, err, unit>>

\* one turn of the loop of assign_labels (main.rs:51-68)
AssignLabel ==
    /\ pc = "assign"
    /\ idx < Len(instrs)
    /\ \E r \in {assign_label(instrs[idx + 1], idx, labels, off)} :
           IF IsOk(r)
           THEN /\ instrs' = [instrs EXCEPT ![idx + 1] = Unwrap(r)]
                /\ idx' = idx + 1
                /\ UNCHANGED pc
           ELSE /\ pc' = "panicked"
                /\ UNCHANGED <<instrs, idx>>
    /\ UNCHANGED <<lines, labels, off, file, err, unit>>

\* assign_labels returns and main calls write_coe, which creates the file and
\* writes its two header lines (main.rs:37, 72-74)
CreateFile ==
    /\ pc = "assign"
    /\ idx = Len(instrs)
    /\ pc' = "write"
    /\ idx' = 0
    /\ file' = [exists |-> TRUE, content |-> <<RadixHeader, VectorHeader>>]
    /\ UNCHANGED <<lines, instrs, labels, off, err, unit>>

\* one turn of the loop of write_coe (main.rs:75-82)
WriteWord ==
    /\ pc = "write"
    /\ idx < Len(instrs)
    /\ \E r \in {encode(instrs[idx + 1])} :
           IF IsOk(r)
           THEN /\ file' = [file EXCEPT !.content =
                                Append(@, WordLine(Unwrap(r), idx, Len(instrs)))]
                /\ idx' = idx + 1
                /\ UNCHANGED <<pc, err>>
           ELSE /\ pc' = "failed"
                /\ err' = r.err
                /\ UNCHANGED <<file, idx>>
    /\ UNCHANGED <<lines, instrs, labels, off, unit>>

\* write_coe returns Ok(()) and main ends (main.rs:83)
Finish ==
    /\ pc = "write"
    /\ idx = Len(instrs)
    /\ pc' = "done"
    /\ UNCHANGED <<lines, instrs, labels, off, idx, file, err, unit>>

Next ==
    \/ \E raw \in ProgramLines : ReadLine(raw)
    \/ \E offset \in Offsets : CallAssignLabels(offset)
    \/ AssignLabel
    \/ CreateFile
    \/ WriteWord
    \/ Finish

Spec == Init /\ [][Next]_vars

(***************************************************************************)
(* Unit level: one line through Instruction::from_str, the address setters *)
(* and encode, as the tests of instruction.rs call them (525-653).  A line *)
(* is written from its operands (`given`) by Render, which formats what    *)
(* from_str has to parse back.                                             *)
(***************************************************************************)
\* the literals 0..MaxLiteral are all written out, beside the edge values
MaxLiteral == 33

LiteralValues == (0..MaxLiteral) \cup {255, 256, 657, 32767, 32768, 32769, 65535, 65536}
Radixes == {2, 8, 10, 16}
Signs == {<<>>, <<"+">>, <<"-">>}
AllRegisters == 0..(Len(RegisterNames) - 1)
SomeRegisters == {0, 8, 29, 31}
LabelNames == {<<"L","0">>, <<"E","l","s","e","1">>}
AbsAddrValues == {0, 64, 688127, FieldLimit}
RelAddrValues == {0, 1, 65535}

MnemonicOf(op) == opname(op)
PseudoMnemonics == {<<"p","u","s","h">>, <<"p","o","p">>, <<"m","o","v">>}

Source(form, mnem, r1, r2, sign, radix, n, label, raw) ==
    [form |-> form, mnem |-> mnem, r1 |-> r1, r2 |-> r2, sign |-> sign,
     radix |-> radix, n |-> n, label |-> label, raw |-> raw]

Sources ==
    {Source("rr", MnemonicOf(op), r1, r2, <<>>, 10, 0, <<>>, <<>>) :
        op \in TwoRegOps, r1 \in SomeRegisters, r2 \in SomeRegisters}
    \cup {Source("rr", <<"m","o","v">>, r1, r2, <<>>, 10, 0, <<>>, <<>>) :
        r1 \in AllRegisters, r2 \in AllRegisters}
    \cup {Source("r", m, r1, 0, <<>>, 10, 0, <<>>, <<>>) :
        m \in {<<"p","u","s","h">>, <<"p","o","p">>, <<"b","r">>}, r1 \in AllRegisters}
    \cup {Source("rv", MnemonicOf(op), r1, 0, sign, radix, n, <<>>, <<>>) :
        op \in ImmOps \cup ShiftOps, r1 \in {8, 29},
        sign \in Signs, radix \in Radixes, n \in LiteralValues}
    \cup {Source("mem", MnemonicOf(op), 9, r2, sign, radix, n, <<>>, <<>>) :
        op \in MemOps, r2 \in {10, 29},
        sign \in Signs, radix \in Radixes, n \in LiteralValues}
    \cup {Source("label", MnemonicOf(op), 0, 0, <<>>, 10, 0, l, <<>>) :
        op \in {"B", "Bl", "Bcy", "Bncy"}, l \in LabelNames}
    \cup {Source("rlabel", MnemonicOf(op), r1, 0, <<>>, 10, 0, l, <<>>) :
        op \in RegLabelOps, r1 \in SomeRegisters, l \in LabelNames}
    \cup {Source("raw", <<>>, 0, 0, <<>>, 10, 0, <<>>, raw) : raw \in
        {<<>>, <<"n","o","p">>, <<"n","o","p"," ","$","t","0">>, <<"a","d","d"," ","$","t","0">>, <<"a","d","d"," ","$","t","0",","," ","$","t","1",","," ","$","t","2">>, <<"a","d","d"," ","$","x","x",","," ","$","t","0">>, <<"a","d","d","i"," ","$","t","0",","," ","1","2","z">>, <<"l","w"," ","$","t","0",","," ","4","[","$","t","1","]">>, <<"l","w"," ","$","z","e","r","o",","," ","4","(","$","s","p",")">>, <<"p","u","s","h"," ","t","0">>}}

RECURSIVE ToDigits(_, _)
\* the digits of n in the radix, most significant first
ToDigits(n, radix) ==
    IF n < radix THEN <<DigitChars[n + 1]>>
    ELSE ToDigits(n \div radix, radix) \o <<DigitChars[(n % radix) + 1]>>

RadixPrefix(radix) ==
    CASE radix = 16 -> <<"0","x">>
      [] radix = 2 -> <<"0","b">>
      [] radix = 8 -> <<"0","o">>
      [] radix = 10 -> <<>>

Literal(d) == d.sign \o RadixPrefix(d.radix) \o ToDigits(d.n, d.radix)
RegisterText(r) == RegisterNames[r + 1]

\* the line of the operands d
Render(d) ==
    CASE d.form = "rr" -> d.mnem \o <<" ">> \o RegisterText(d.r1) \o <<","," ">> \o RegisterText(d.r2)
      [] d.form = "r" -> d.mnem \o <<" ">> \o RegisterText(d.r1)
      [] d.form = "rv" -> d.mnem \o <<" ">> \o RegisterText(d.r1) \o <<","," ">> \o Literal(d)
      [] d.form = "mem" -> d.mnem \o <<" ">> \o RegisterText(d.r1) \o <<","," ">> \o Literal(d)
                               \o <<"(">> \o RegisterText(d.r2) \o <<")">>
      [] d.form = "label" -> d.mnem \o <<" ">> \o d.label
      [] d.form = "rlabel" -> d.mnem \o <<" ">> \o RegisterText(d.r1) \o <<","," ">> \o d.label
      [] d.form = "raw" -> d.raw

PipelineIdle ==
    /\ pc = "unit"
    /\ lines = <<>>
    /\ instrs = <<>>
    /\ labels = EmptyMap
    /\ off = 0
    /\ idx = 0
    /\ file = NoFile
    /\ err = NoError

pipeline == <<pc, lines, instrs, labels, off, file, err>>

InitLine ==
    /\ PipelineIdle
    /\ given \in Sources
    /\ text = Render(given)
    /\ parsed = NotCalled
    /\ word = NotCalled

\* Instruction::from_str(text)
FromStrCall ==
    /\ parsed = NotCalled
    /\ parsed' = from_str(text)
    /\ UNCHANGED <<pipeline, idx, given, text, word>>

\* the instructions a successful from_str returned
Parsed == IF IsOk(parsed) THEN Unwrap(parsed) ELSE <<>>

\* instruction k of the parsed ones: set_abs_addr(addr)
SetAbsAddrCall(k, addr) ==
    /\ IsOk(parsed)
    /\ word = NotCalled
    /\ parsed' = Ok([Parsed EXCEPT ![k] = set_abs_addr(@, addr)])
    /\ UNCHANGED <<pipeline, idx, given, text, word>>

\* instruction k of the parsed ones: set_rel_addr(addr)
SetRelAddrCall(k, addr) ==
    /\ IsOk(parsed)
    /\ word = NotCalled
    /\ parsed' = Ok([Parsed EXCEPT ![k] = set_rel_addr(@, addr)])
    /\ UNCHANGED <<pipeline, idx, given, text, word>>

\* instruction k of the parsed ones: encode(); idx keeps which one it was
EncodeCall(k) ==
    /\ IsOk(parsed)
    /\ word = NotCalled
    /\ word' = encode(Parsed[k])
    /\ idx' = k - 1
    /\ UNCHANGED <<pipeline, given, text, parsed>>

NextLine ==
    \/ FromStrCall
    \/ \E k \in 1..Len(Parsed) : \E addr \in AbsAddrValues : SetAbsAddrCall(k, addr)
    \/ \E k \in 1..Len(Parsed) : \E addr \in RelAddrValues : SetRelAddrCall(k, addr)
    \/ \E k \in 1..Len(Parsed) : EncodeCall(k)

SpecLine == InitLine /\ [][NextLine]_vars

(***************************************************************************)
(* Unit level: encode() on instruction values built directly, as           *)
(* test_encoding builds them (instruction.rs:625-652).                     *)
(***************************************************************************)
ImmValues == {0, 1, 657, 65520, 65535}
ShiftValues == {0, 3, 31, 32, 255}

EncodeInputs ==
    {Instruction(op, rs, rt, 0, 0, NoLabel) :
        op \in TwoRegOps, rs \in AllRegisters, rt \in AllRegisters}
    \cup {Instruction(op, rs, 0, imm, 0, NoLabel) :
        op \in ImmOps, rs \in AllRegisters, imm \in ImmValues}
    \cup {Instruction(op, rs, 0, 0, sh, NoLabel) :
        op \in ShiftOps, rs \in AllRegisters, sh \in ShiftValues}
    \cup {Instruction(op, rs, rt, imm, 0, NoLabel) :
        op \in MemOps, rs \in AllRegisters, rt \in AllRegisters, imm \in ImmValues}
    \cup {Instruction("Br", rs, 0, 0, 0, NoLabel) : rs \in AllRegisters}
    \cup {Instruction(op, 0, 0, 0, 0, [name |-> l, addr |-> a]) :
        op \in {"B", "Bl"}, l \in LabelNames, a \in {<<>>} \cup {<<v>> : v \in AbsAddrValues}}
    \cup {Instruction(op, 0, 0, 0, 0, [name |-> l, addr |-> a]) :
        op \in {"Bcy", "Bncy"}, l \in LabelNames, a \in {<<>>} \cup {<<v>> : v \in RelAddrValues}}
    \cup {Instruction(op, rs, 0, 0, 0, [name |-> l, addr |-> a]) :
        op \in RegLabelOps, rs \in AllRegisters, l \in LabelNames,
        a \in {<<>>} \cup {<<v>> : v \in RelAddrValues}}

InitEncode ==
    /\ PipelineIdle
    /\ given = NoSource
    /\ text = <<>>
    /\ \E i \in EncodeInputs : parsed = Ok(<<i>>)
    /\ word = NotCalled

NextEncode == EncodeCall(1)

SpecEncode == InitEncode /\ [][NextEncode]_vars

(***************************************************************************)
(* Unit level: one turn of the loop of assign_labels on a relative branch  *)
(* at index idx of a program whose label table holds one label, for        *)
(* indices near 0 and indices around the reach of an i16 byte distance.    *)
(***************************************************************************)
\* the indices 0..MaxNear are all tried
MaxNear == 5

\* 2^13 words are 2^15 bytes: the least distance an i16 does not hold
FarWords == Pow2(13)

Positions ==
    (0..MaxNear) \cup ((FarWords - 2)..(FarWords + 2)) \cup {2 * FarWords, 2 * FarWords + 1}

RelBranches ==
    {Instruction("Bcy", 0, 0, 0, 0, LabelFrom(<<"L","0">>)),
     Instruction("Bnz", 8, 0, 0, 0, LabelFrom(<<"L","0">>))}

InitRel ==
    /\ pc = "unit"
    /\ lines = <<>>
    /\ instrs = <<>>
    /\ \E j \in Positions : labels = Insert(EmptyMap, <<"L","0">>, j)
    /\ off = 0
    /\ idx \in Positions
    /\ file = NoFile
    /\ err = NoError
    /\ given = NoSource
    /\ text = <<>>
    /\ \E i \in RelBranches : parsed = Ok(<<i>>)
    /\ word = NotCalled

\* the one-instruction vector after the turn: the instruction is changed in place
InPlace(r) == IF IsOk(r) THEN Ok(<<Unwrap(r)>>) ELSE r

\* the turn of the loop of assign_labels that meets the branch at index idx
ResolveCall ==
    /\ IsOk(parsed)
    /\ Parsed[1].label.addr = <<>>
    /\ parsed' = InPlace(assign_label(Parsed[1], idx, labels, off))
    /\ UNCHANGED <<pipeline, idx, given, text, word>>

NextRel == ResolveCall

SpecRel == InitRel /\ [][NextRel]_vars

(***************************************************************************)
(* write_coe on its own (main.rs:71-84): the method takes any ParsedAsm,   *)
(* so the instruction sequence it walks may hold labels that no resolution *)
(* pass has given an address.                                              *)
(***************************************************************************)
\* the longest instruction sequence write_coe is called on
MaxEmit == 3

EmitInstrs ==
    {Instruction("Xor", 8, 9, 0, 0, NoLabel),
     set_abs_addr(Instruction("B", 0, 0, 0, 0, LabelFrom(<<"A">>)), 64),
     Instruction("B", 0, 0, 0, 0, LabelFrom(<<"A">>)),
     set_rel_addr(Instruction("Bcy", 0, 0, 0, 0, LabelFrom(<<"B">>)), 65535),
     Instruction("Bz", 8, 0, 0, 0, LabelFrom(<<"B">>))}

InitEmit ==
    /\ pc = "assign"
    /\ lines = <<>>
    /\ \E n \in 0..MaxEmit : instrs \in [1..n -> EmitInstrs]
    /\ labels = EmptyMap
    /\ off = 0
    /\ idx = Len(instrs)
    /\ file = NoFile
    /\ err = NoError
    /\ UnitIdle

NextEmit == CreateFile \/ WriteWord \/ Finish

SpecEmit == InitEmit /\ [][NextEmit]_vars

(***************************************************************************)
(* Unit level: from_str on a line with extra spaces around an operand.     *)
(* `given` keeps the operands, `text` is the line as from_str receives it. *)
(***************************************************************************)
\* the most spaces added at one place
MaxPad == 2

RECURSIVE Spaces(_)
Spaces(k) == IF k = 0 THEN <<>> ELSE <<" ">> \o Spaces(k - 1)

\* where the spaces go: before the first operand, after it, after the comma,
\* at the end of the line, or at the end of the line before a comment that
\* parse_file cuts off (main.rs:100-102)
PadPlaces == {"before", "after", "comma", "end", "comment"}

PadSources ==
    {d \in Sources : /\ d.form # "raw"
                     /\ d.n \in {0, 4, 657}
                     /\ d.radix \in {10, 16}
                     /\ d.r1 \in {8, 9, 29}
                     /\ d.r2 \in {0, 8, 10}}

\* the second operand of the line of d, as Render writes it
SecondOperand(d) ==
    CASE d.form = "rr" -> RegisterText(d.r2)
      [] d.form = "rv" -> Literal(d)
      [] d.form = "mem" -> Literal(d) \o <<"(">> \o RegisterText(d.r2) \o <<")">>
      [] d.form = "rlabel" -> d.label

FirstOperand(d) == IF d.form = "label" THEN d.label ELSE RegisterText(d.r1)

\* the line of d with k more spaces at the place
Padded(d, place, k) ==
    CASE place = "before" ->
            d.mnem \o <<" ">> \o Spaces(k) \o SubSeq(Render(d), Len(d.mnem) + 2, Len(Render(d)))
      [] place = "after" ->
            d.mnem \o <<" ">> \o FirstOperand(d) \o Spaces(k)
              \o SubSeq(Render(d), Len(d.mnem) + 2 + Len(FirstOperand(d)), Len(Render(d)))
      [] place = "comma" ->
            IF d.form \in {"r", "label"} THEN Render(d)
            ELSE d.mnem \o <<" ">> \o FirstOperand(d) \o <<","," ">> \o Spaces(k) \o SecondOperand(d)
      [] place = "end" -> Render(d) \o Spaces(k)
      [] place = "comment" -> StripComment(Render(d) \o Spaces(k) \o Slashes \o <<" ","c">>)

InitPad ==
    /\ PipelineIdle
    /\ given \in PadSources
    /\ \E place \in PadPlaces : \E k \in 1..MaxPad : text = Padded(given, place, k)
    /\ parsed = NotCalled
    /\ word = NotCalled

NextPad == FromStrCall

SpecPad == InitPad /\ [][NextPad]_vars

(***************************************************************************)
(* Unit level: from_str on line texts that are not well formed: every      *)
(* mnemonic, and a word that is none, before every operand text.           *)
(***************************************************************************)
OperandTexts ==
    {<<>>,
     <<"$","t","0">>,
     <<"$","t","0",",">>,
     <<"$","t","0",","," ">>,
     <<",">>,
     <<",","1">>,
     <<"$","t","0",",","1">>,
     <<"$","t","0",","," ","-">>,
     <<"$","t","0",","," ","+">>,
     <<"$","t","0",","," ","0","x">>,
     <<"$","t","0",","," ","-","0","x">>,
     <<"$","t","0",","," ","1","2","z">>,
     <<"$","t","0",","," ","0","o","1","7">>,
     <<"$","t","0",","," ","6","5","5","3","6">>,
     <<"$","x","x",","," ","1">>,
     <<"$","t","0",","," ","$","t","1">>,
     <<"$","t","0",","," ","$","t","1",","," ","$","t","2">>,
     <<"$","t","0",","," ","4","(","$","s","p",")">>,
     <<"$","t","0",","," ","(","$","s","p",")">>,
     <<"$","t","0",","," ","-","(","$","s","p",")">>,
     <<"$","t","0",","," ","4","(","$","x","x",")">>,
     <<"$","t","0",","," ","4","[","$","s","p","]">>,
     <<"L","0">>,
     <<"$","t","0",","," ","L","0">>,
     <<"$","t","0",",",",">>}

Mnemonics ==
    {OpNames[i][2] : i \in 1..Len(OpNames)} \cup PseudoMnemonics \cup {<<"f","o","o">>}

\* a mnemonic, a blank and an operand text; a mnemonic alone; the empty line
LineTexts ==
    {m \o <<" ">> \o o : m \in Mnemonics, o \in OperandTexts} \cup Mnemonics \cup {<<>>}

InitText ==
    /\ PipelineIdle
    /\ \E raw \in LineTexts : given = Source("raw", <<>>, 0, 0, <<>>, 10, 0, <<>>, raw)
    /\ text = Render(given)
    /\ parsed = NotCalled
    /\ word = NotCalled

NextText == FromStrCall

SpecText == InitText /\ [][NextText]_vars

(***************************************************************************)
(* Properties.                                                             *)
(***************************************************************************)
CarriesLabel(i) == has_abs_label(i) \/ has_rel_label(i)
Resolved(i) == i.label.addr # <<>>

\* C1: when the resolution pass meets a label-carrying instruction whose label
\* is no key of the label table, it ends in an undefined-label error that is
\* returned like every other assembler error (no abort), and no word is emitted.
C1_UndefinedLabelIsAnError ==
    [][(/\ pc = "assign"
        /\ idx < Len(instrs)
        /\ CarriesLabel(instrs[idx + 1])
        /\ get_label_name(instrs[idx + 1]) \notin DOMAIN labels)
       => (/\ pc' = "failed"
           /\ err'.kind = "UndefinedLabel"
           /\ ~file'.exists)]_vars

\* C2: the address stored for a relative branch at index i whose label is defined
\* at index j is (j*4 - (i*4 + 4)) shifted right by 2 with its sign kept, that is
\* j - i - 1, and only then cut to its low 16 bits, for every i and j.
C2_ShiftThenTruncate ==
    (IsOk(parsed) /\ Resolved(Parsed[1]))
    => \A n \in DOMAIN labels :
          Parsed[1].label.addr[1]
            = AsUnsigned(((labels[n] * 4) - (idx * 4 + 4)) \div 4, 16)

\* the indices of assign_labels' loop that are behind it
Assigned == IF pc = "assign" THEN 1..idx
            ELSE IF pc \in {"write", "done"} THEN 1..Len(instrs)
            ELSE {}

\* C3: every b or bl that assign_labels(off) has passed holds the address
\* off + 4*p, p being the position of its label in the label table, whether the
\* definition precedes or follows it and whatever its own index is.
C3_AbsoluteAddress ==
    \A k \in 1..Len(instrs) :
        has_abs_label(instrs[k]) =>
            /\ k \in Assigned => Resolved(instrs[k])
            /\ Resolved(instrs[k]) =>
                  /\ get_label_name(instrs[k]) \in DOMAIN labels
                  /\ instrs[k].label.addr[1] = off + 4 * labels[get_label_name(instrs[k])]

\* C3 witness: a finished run with a base offset where one absolute branch refers
\* back to an earlier definition and another refers forward to a later one.
C3_Witness ==
    /\ pc = "done"
    /\ off = 64
    /\ \E k \in 1..Len(instrs) :
          has_abs_label(instrs[k]) /\ labels[get_label_name(instrs[k])] <= k - 1
    /\ \E k \in 1..Len(instrs) :
          has_abs_label(instrs[k]) /\ labels[get_label_name(instrs[k])] > k - 1

IsCommentLine(raw) == StartsWith(Trim(raw), Slashes)

\* the label a line defines, <<>> when it is no label line
LabelOfLine(raw) == IF IsCommentLine(raw) THEN <<>> ELSE detect_label(StripComment(raw))

\* the primitive instructions a line stands for: none for a label or comment
\* line, two for push, pop and mov, one otherwise
LineWeight(raw) ==
    IF IsCommentLine(raw) \/ LabelOfLine(raw) # <<>> THEN 0
    ELSE IF \E m \in PseudoMnemonics : StartsWith(StripComment(raw), m \o <<" ">>) THEN 2
    ELSE 1

\* the lines that parse_file took in: all but a last instruction line that
\* from_str refused (parse_file stops there)
Accepted == IF /\ Len(lines) > 0
               /\ ~IsCommentLine(lines[Len(lines)])
               /\ LabelOfLine(lines[Len(lines)]) = <<>>
               /\ ~IsOk(from_str(StripComment(lines[Len(lines)])))
            THEN Len(lines) - 1 ELSE Len(lines)

RECURSIVE SumTo(_, _)
\* w[1] + ... + w[k]
SumTo(w, k) == IF k = 0 THEN 0 ELSE SumTo(w, k - 1) + w[k]

\* the last index of defs that holds <<n>>
LastDefinition(defs, n) ==
    CHOOSE k \in DOMAIN defs : defs[k] = <<n>> /\ \A j \in DOMAIN defs : defs[j] = <<n>> => j <= k

\* C4: the label table holds exactly the labels the lines define, each at the
\* number of primitive instructions of the lines before its last definition
\* (a label line counts 0, an instruction line 1, a push/pop/mov line 2), and
\* the instruction sequence holds that many instructions per line.
C4_LabelPositions ==
    LET defs   == [k \in 1..Len(lines) |-> LabelOfLine(lines[k])]
        weight == [k \in 1..Len(lines) |-> LineWeight(lines[k])]
    IN  /\ DOMAIN labels = {defs[k][1] : k \in {j \in 1..Len(lines) : defs[j] # <<>>}}
        /\ \A n \in DOMAIN labels : labels[n] = SumTo(weight, LastDefinition(defs, n) - 1)
        /\ Len(instrs) = SumTo(weight, Accepted)

\* C4 witness: a label defined twice, the second time after a pseudo-instruction.
C4_Witness ==
    /\ pc = "done"
    /\ \E n \in DOMAIN labels :
          /\ Cardinality({k \in 1..Len(lines) : LabelOfLine(lines[k]) = <<n>>}) = 2
          /\ labels[n] = 2

\* C5: bits 31-26 of every word encode() returns equal the opcode of the
\* instruction, also for b and bl with any address assign_labels gave them
\* under any base offset.
C5_OpcodeField ==
    \A k \in 1..Len(instrs) :
        (file.exists /\ Len(file.content) >= 2 + k)
        => SubSeq(file.content[2 + k], 1, 6) = ToBinary(opcode(instrs[k].op), 6)

\* the word of an instruction as the sum of its fields
FieldSum(opc, rs, rt, imm) == opc * Pow2(26) + rs * Pow2(21) + rt * Pow2(16) + imm

\* C6: encode() of a two-register, register+immediate or memory instruction with
\* registers in 0..31 is opcode*2^26 + rs*2^21 + rt*2^16 + imm, with rt = 0 for
\* addi/compi and imm = 0 for the two-register forms.
C6_FieldLayout ==
    (IsOk(parsed) /\ word # NotCalled) =>
        LET i == Parsed[idx + 1]
        IN  /\ i.op \in TwoRegOps => word = Ok(FieldSum(opcode(i.op), i.rs, i.rt, 0))
            /\ i.op \in ImmOps => word = Ok(FieldSum(opcode(i.op), i.rs, 0, i.imm))
            /\ i.op \in MemOps => word = Ok(FieldSum(opcode(i.op), i.rs, i.rt, i.imm))

\* C6 witness: lw $t7, 657($t2) built as rs = 10, rt = 15, imm = 657 and encoded
\* to 0x314F0291.
C6_Witness ==
    /\ IsOk(parsed)
    /\ Parsed[1] = Instruction("Lw", 10, 15, 657, 0, NoLabel)
    /\ word = Ok(827261585)

ShiftMnemonics == {MnemonicOf(op) : op \in ShiftOps}
ImmediateMnemonics == {MnemonicOf(op) : op \in ImmOps \cup MemOps}

\* C7: the word of every shift-by-constant line that parses, whatever literal it
\* carries, has the register's index in bits 25-21, the shift amount in bits
\* 20-16 and zeros in bits 15-0: the amount never spills into the rs field.
C7_ShiftAmountField ==
    (given.form = "rv" /\ given.mnem \in ShiftMnemonics /\ IsOk(parsed) /\ IsOk(word))
    => /\ Bits(Unwrap(word), 25, 21) = given.r1
       /\ Bits(Unwrap(word), 20, 16) = Parsed[1].sh
       /\ Bits(Unwrap(word), 15, 0) = 0

\* C8: a register+immediate or memory line whose literal is written -N, in any
\* radix, with N in 1..32768, parses, and its parsed and encoded 16-bit immediate
\* is 2^16 - N.
C8_NegativeImmediate ==
    (/\ given.form \in {"rv", "mem"}
     /\ given.mnem \in ImmediateMnemonics
     /\ given.sign = <<"-">>
     /\ given.n \in 1..32768
     /\ parsed # NotCalled)
    => /\ IsOk(parsed)
       /\ Len(Parsed) = 1
       /\ Parsed[1].imm = 65536 - given.n
       /\ word # NotCalled => (IsOk(word) /\ Bits(Unwrap(word), 15, 0) = 65536 - given.n)

\* C8 witness: sw with the literal -0b1000000000000000 (N = 32768), encoded.
C8_Witness ==
    /\ given.form = "mem"
    /\ given.sign = <<"-">>
    /\ given.radix = 2
    /\ given.n = 32768
    /\ IsOk(word)
    /\ Bits(Unwrap(word), 15, 0) = 32768

\* C9: push r is [sw r, 0($sp); addi $sp, 0xFFFC], pop r is [addi $sp, 4;
\* lw r, 0($sp)], mov d, s is [xor d, d; add d, s], for every register; every
\* other mnemonic that parses gives exactly one instruction.
C9_PseudoExpansion ==
    (given.form \in {"r", "rr", "rv", "mem", "label", "rlabel"} /\ parsed # NotCalled) =>
        /\ given.mnem = <<"p","u","s","h">> =>
              parsed = Ok(<<Instruction("Sw", 29, given.r1, 0, 0, NoLabel),
                            Instruction("AddImm", 29, 0, 65532, 0, NoLabel)>>)
        /\ given.mnem = <<"p","o","p">> =>
              parsed = Ok(<<Instruction("AddImm", 29, 0, 4, 0, NoLabel),
                            Instruction("Lw", 29, given.r1, 0, 0, NoLabel)>>)
        /\ given.mnem = <<"m","o","v">> =>
              parsed = Ok(<<Instruction("Xor", given.r1, given.r1, 0, 0, NoLabel),
                            Instruction("Add", given.r1, given.r2, 0, 0, NoLabel)>>)
        /\ (given.mnem \notin PseudoMnemonics /\ IsOk(parsed)) => Len(Parsed) = 1

\* C9 witness: push $t0 parsed into its two instructions.
C9_Witness ==
    /\ given.mnem = <<"p","u","s","h">>
    /\ given.r1 = 8
    /\ IsOk(parsed)
    /\ Len(Parsed) = 2
    /\ Parsed[2].imm = 65532

\* C10: from_str leaves the address of a label-carrying instruction unresolved;
\* encode() of a label-carrying instruction without an address is the
\* floating-label error with the label's name and no word; encode() of any other
\* instruction, or of a label-carrying one with an address, is a word.
C10_FloatingLabel ==
    /\ [](\A k \in 1..Len(Parsed) :
            (word # NotCalled /\ idx = k - 1) =>
                IF CarriesLabel(Parsed[k]) /\ ~Resolved(Parsed[k])
                THEN word = Err(FloatingLabel(Parsed[k].label.name))
                ELSE IsOk(word))
    /\ [][(parsed = NotCalled /\ IsOk(parsed'))
          => \A k \in 1..Len(Unwrap(parsed')) :
                LET i == Unwrap(parsed')[k]
                IN  /\ ~Resolved(i)
                    /\ CarriesLabel(i) <=> given.form \in {"label", "rlabel"}
                    /\ CarriesLabel(i) => i.label.name = given.label]_vars

\* C10 witness: bltz $s0-style line encoded before any address was set, and the
\* floating-label error came back.
C10_Witness ==
    /\ given.form = "rlabel"
    /\ IsOk(parsed)
    /\ ~Resolved(Parsed[1])
    /\ word = Err(FloatingLabel(given.label))

C12_SpacesInsignificant ==
    parsed # NotCalled => parsed = from_str(Render(given))

ParseErrorKinds ==
    {"OpcodeMissing", "UnknownInstruction", "InvalidNoOfArgs", "UnknownRegister",
     "InvalidNumber", "InvalidInstruction"}

\* C13: from_str on any line text returns a list of instructions or one of
\* the structured error values, and never aborts, an empty value operand
\* after the comma included.
C13_ParseNeverAborts ==
    parsed # NotCalled =>
        \/ IsOk(parsed)
        \/ parsed.tag = "Err" /\ parsed.err.kind \in ParseErrorKinds

\* an instruction with its address field left out of the comparison
SaveAddress(i) == [i EXCEPT !.label.addr = <<>>]

\* C14: once parsing is over, a step changes nothing of the instruction
\* sequence and the label table but the address of a label-carrying
\* instruction, which assign_labels writes once, from unresolved to resolved:
\* the count, the order, the opcodes, the register and immediate fields, the
\* label names and the label table stay as parsed, and emission changes none
\* of them; when emission starts every label-carrying instruction is resolved.
C14_OnlyAddressesChange ==
    /\ [](pc \in {"write", "done"} =>
            \A k \in 1..Len(instrs) : CarriesLabel(instrs[k]) => Resolved(instrs[k]))
    /\ [][(pc # "parse" \/ pc' = "assign") =>
            /\ labels' = labels
            /\ Len(instrs') = Len(instrs)
            /\ \A k \in 1..Len(instrs) :
                  /\ SaveAddress(instrs'[k]) = SaveAddress(instrs[k])
                  /\ instrs'[k] # instrs[k] =>
                        /\ pc = "assign"
                        /\ CarriesLabel(instrs[k])
                        /\ ~Resolved(instrs[k])
                        /\ Resolved(instrs'[k])]_vars

\* a finished run of two instructions or more, one of them with an address
\* that assign_labels wrote, all of them written to the file
C14_Witness ==
    /\ pc = "done"
    /\ Len(instrs) >= 2
    /\ \E k \in 1..Len(instrs) : CarriesLabel(instrs[k]) /\ Resolved(instrs[k])
    /\ \E k \in 1..Len(instrs) : ~CarriesLabel(instrs[k])
    /\ Len(file.content) = 2 + Len(instrs)

====
